---- MODULE Spec2Model ----
(***************************************************************************)
(* Model of object3d_detector_gpu.cpp: the Object3dDetector constructor,   *)
(* extractCluster (z filter, nested-region partition, per-region           *)
(* clustering, size gate, extractFeature with computeSlice) and classify   *)
(* (saveFeature, scaling, prediction, assembling of the published          *)
(* detections), frame after frame (Spec); the scaling of one value         *)
(* (SpecScale), computeSlice (SpecSlice) and the constructor's range loop  *)
(* (SpecRange) on their own.                                               *)
(*                                                                         *)
(* Lengths are integers in decimetres (0.1 m), squared ranges in dm^2.     *)
(* Classifier values (svm_node_[i].value, the range table, the target      *)
(* bounds) are doubles; they are modelled on an integer grid that is finer *)
(* than DBL_EPSILON (Eps grid steps), results of the scaling division are  *)
(* exact fractions [num, den] in lowest terms.                             *)
(***************************************************************************)
EXTENDS Integers, Sequences, FiniteSets, TLC

VARIABLES
  model_file,            \* environment: what svm_load_model() finds (ok: a model was loaded)
  range_file,            \* environment: what fopen(range_file_name_) finds (ok: the file was opened)
  cluster_size_min_,     \* ROS parameter
  human_size_limit_,     \* ROS parameter
  use_svm_model_,
  is_probability_model_,
  svm_scale_range_,      \* [0..FEATURE_SIZE-1 -> <<lower, upper>>]
  svm_x_lower_,
  svm_x_upper_,
  range_pos,             \* (index min max) lines of the range file the constructor has consumed
  range_rows,            \* log of the rows idx-1 the constructor has written, in order
  svm_node_,             \* classifier input vector, <<>> when not allocated
  pc,                    \* position of pointCloudCallback: "idle" (not running), "extracted", "published"
  received,              \* points received in the frames so far
  earlier,               \* features_ as the previous callback left it (what features_.clear() drops)
  cloud,                 \* *pc after the z filter of extractCluster
  indices_array,         \* [0..nested_regions_-1 -> Seq(index into cloud)]
  ec_calls,              \* log of cudaec.extract() calls of the frame: parameters and buffers returned
  clusters,              \* log of the clusters rebuilt from the engine's buffers
  features_,
  svm_log,               \* log of classify(): one record per feature visited
  people,                \* detections assembled by classify() (ppl.people / pma.people / markers)
  scale_in,              \* input of the scaling step checked on its own (SpecScale)
  scale_out,             \* its result
  slice_in,              \* the cloud handed to computeSlice checked on its own (SpecSlice)
  slice_out              \* its result: the blocks built and the 20 slice values

frame_vars == <<pc, received, earlier, cloud, indices_array, ec_calls, clusters, features_,
                svm_log, people, svm_node_>>
config_vars == <<model_file, range_file, cluster_size_min_, human_size_limit_, use_svm_model_,
                 is_probability_model_, svm_scale_range_, svm_x_lower_, svm_x_upper_,
                 range_pos, range_rows>>
scale_vars == <<scale_in, scale_out>>
slice_vars == <<slice_in, slice_out>>
vars == <<frame_vars, config_vars, scale_vars, slice_vars>>

-----------------------------------------------------------------------------
(* Program constants *)

FEATURE_SIZE == 34
nested_regions_ == 14
zone_ == <<2, 3, 3, 3, 3, 3, 3, 2, 3, 3, 3, 3, 3, 3>>   \* metres, zone_[j+1] is the code's zone_[j]
z_limit_min_ == -8          \* -0.8 m
z_limit_max_ == 12          \*  1.2 m
cluster_size_max_ == 30000
human_probability_ == 70    \* 0.7, probabilities are in percent
Eps == 2                    \* DBL_EPSILON in grid steps

(* Bounds of the model *)

MaxPoints == 2              \* points received over the frames of a run
GridPerUnit == 4            \* grid steps of the double lattice per unit of a feature value
JunkHi == 6                 \* an indeterminate table row is <<0, 0>> or <<0, JunkHi>>

Regions == 0 .. (nested_regions_ - 1)
Dims == 0 .. (FEATURE_SIZE - 1)

-----------------------------------------------------------------------------
(* Small helpers *)

Abs(a) == IF a < 0 THEN -a ELSE a

Min2(a, b) == IF a <= b THEN a ELSE b

Max2(a, b) == IF a >= b THEN a ELSE b

RECURSIVE GCD(_, _)
GCD(a, b) == IF b = 0 THEN a ELSE GCD(b, a % b)

\* The fraction n/d (d # 0) in lowest terms with a positive denominator.
Rat(n, d) ==
  LET g == GCD(Abs(n), Abs(d))
      s == IF d < 0 THEN -1 ELSE 1
  IN  [num |-> (s * n) \div g, den |-> (s * d) \div g]

\* int or float to double (the assignments of saveFeature): the value on the grid.
ToDouble(v) == v * GridPerUnit

RECURSIVE SeqSum(_)
SeqSum(s) == IF s = <<>> THEN 0 ELSE Head(s) + SeqSum(Tail(s))

RECURSIVE SeqMin(_)
SeqMin(s) == IF Len(s) = 1 THEN s[1] ELSE Min2(s[1], SeqMin(Tail(s)))

RECURSIVE SeqMax(_)
SeqMax(s) == IF Len(s) = 1 THEN s[1] ELSE Max2(s[1], SeqMax(Tail(s)))

\* size_t > int, as C++ evaluates it: the int is converted to size_t, so a
\* negative right-hand side becomes a value no container size exceeds.
SizeGreater(sz, n) == IF n < 0 THEN FALSE ELSE sz > n

-----------------------------------------------------------------------------
(* extractCluster: z filter and partition into nested regions *)

\* d2 of line 203 (and of line 451).
SquaredRange(p) == p.x * p.x + p.y * p.y + p.z * p.z

\* Lines 190-196: the points whose z lies in [z_limit_min_, z_limit_max_], in order.
ZFilter(points) ==
  SelectSeq(points, LAMBDA p : p.z >= z_limit_min_ /\ p.z <= z_limit_max_)

\* RegionLoop with the lower comparison closed (d2 >= range * range).
RECURSIVE RegionLoopClosedLower(_, _, _)
RegionLoopClosedLower(d2, j, range) ==
  IF j >= nested_regions_ THEN -1
  ELSE IF d2 >= 100 * range * range
          /\ d2 <= 100 * (range + zone_[j + 1]) * (range + zone_[j + 1])
       THEN j
       ELSE RegionLoopClosedLower(d2, j + 1, range + zone_[j + 1])

\* RegionLoop with the comparisons swapped between the two thresholds
\* (d2 >= range * range and d2 < the outer threshold).
RECURSIVE RegionLoopOuterOpen(_, _, _)
RegionLoopOuterOpen(d2, j, range) ==
  IF j >= nested_regions_ THEN -1
  ELSE IF d2 >= 100 * range * range
          /\ d2 < 100 * (range + zone_[j + 1]) * (range + zone_[j + 1])
       THEN j
       ELSE RegionLoopOuterOpen(d2, j + 1, range + zone_[j + 1])

\* Lines 201-209 for one point: the loop over j with the running `range` (metres);
\* the region the point is pushed to, or -1 when the loop ends without a push.
RECURSIVE RegionLoop(_, _, _)
RegionLoop(d2, j, range) ==
  IF j >= nested_regions_ THEN -1
  ELSE IF d2 > 100 * range * range
          /\ d2 <= 100 * (range + zone_[j + 1]) * (range + zone_[j + 1])
       THEN j
       ELSE RegionLoop(d2, j + 1, range + zone_[j + 1])

RegionOf(p) == RegionLoop(SquaredRange(p), 0, 0)

\* Lines 199-210: indices_array after the loop over the points (0-based indices here
\* are the 1-based positions of the sequence `pts`).
Partition(pts) ==
  LET region == [i \in 1 .. Len(pts) |-> RegionOf(pts[i])]
  IN  [j \in Regions |->
         SelectSeq([i \in 1 .. Len(pts) |-> i], LAMBDA i : region[i] = j)]

-----------------------------------------------------------------------------
(* extractCluster: the clustering loop *)

\* What cudaec.extract() may leave in indexEC and outputEC for a region cloud of
\* n points: indexEC[0] clusters of sizes indexEC[1..], each within the size limits,
\* laid out one after the other in outputEC, in an order the engine chooses.
RECURSIVE ClusterSizes(_, _, _)
ClusterSizes(n, lo, hi) ==
  {<<>>} \cup UNION {{<<s>> \o rest : rest \in ClusterSizes(n - s, lo, hi)} :
                      s \in lo .. Min2(hi, n)}

Orderings(s) ==
  {[i \in 1 .. Len(s) |-> s[f[i]]] : f \in Permutations(1 .. Len(s))}

EngineResults(regional, minClusterSize, maxClusterSize) ==
  {[indexEC  |-> [i \in 0 .. Len(sizes) |-> IF i = 0 THEN Len(sizes) ELSE sizes[i]],
    outputEC |-> out] :
      sizes \in ClusterSizes(Len(regional), Max2(1, minClusterSize), maxClusterSize),
      out \in Orderings(regional)}

\* OutOff without the accumulation of line 265: every cluster starts at offset 0.
OutOffNotAccumulated(indexEC, i, w) == 0

\* Lines 262-267: the offset of cluster i in outputEC.
RECURSIVE OutOff(_, _, _)
OutOff(indexEC, i, w) == IF w >= i THEN 0 ELSE indexEC[w] + OutOff(indexEC, i, w + 1)

\* Lines 269-273: the positions outoff+k (k = 0 .. indexEC[i]-1) of outputEC, counted
\* in points, that cluster i is copied from.
ClusterReads(indexEC, i) ==
  [k \in 1 .. indexEC[i] |-> OutOff(indexEC, i, 1) + (k - 1)]

\* Lines 256-273: the points of cluster i (position p of the code is outputEC[p + 1]
\* of the sequence).
ClusterPoints(indexEC, outputEC, i) ==
  [k \in 1 .. indexEC[i] |-> outputEC[ClusterReads(indexEC, i)[k] + 1]]

\* pcl::getMinMax3D and pcl::compute3DCentroid (the centroid is sum / n, kept as both).
GetMin3D(pts) ==
  [x |-> SeqMin([k \in 1 .. Len(pts) |-> pts[k].x]),
   y |-> SeqMin([k \in 1 .. Len(pts) |-> pts[k].y]),
   z |-> SeqMin([k \in 1 .. Len(pts) |-> pts[k].z])]

GetMax3D(pts) ==
  [x |-> SeqMax([k \in 1 .. Len(pts) |-> pts[k].x]),
   y |-> SeqMax([k \in 1 .. Len(pts) |-> pts[k].y]),
   z |-> SeqMax([k \in 1 .. Len(pts) |-> pts[k].z])]

Compute3DCentroid(pts) ==
  [sx |-> SeqSum([k \in 1 .. Len(pts) |-> pts[k].x]),
   sy |-> SeqSum([k \in 1 .. Len(pts) |-> pts[k].y]),
   sz |-> SeqSum([k \in 1 .. Len(pts) |-> pts[k].z]),
   n  |-> Len(pts)]

\* SizeRejects with the limits themselves rejected (<= and >= for < and >).
SizeRejectsAtLimits(limit, min, max) ==
  limit /\ (   max.x - min.x <= 2 \/ max.x - min.x >= 10
            \/ max.y - min.y <= 2 \/ max.y - min.y >= 10
            \/ max.z - min.z <= 5 \/ max.z - min.z >= 20)

\* Lines 280-285: TRUE when the cluster is skipped (`continue`).
SizeRejects(limit, min, max) ==
  limit /\ (   max.x - min.x < 2 \/ max.x - min.x > 10
            \/ max.y - min.y < 2 \/ max.y - min.y > 10
            \/ max.z - min.z < 5 \/ max.z - min.z > 20)

FLT_MAX == 1000000000

\* MinDistance with the comparison of line 452 reversed.
RECURSIVE MinDistanceReversed(_, _, _)
MinDistanceReversed(pts, i, acc) ==
  IF i > Len(pts) THEN acc
  ELSE MinDistanceReversed(pts, i + 1,
                           IF acc < SquaredRange(pts[i]) THEN SquaredRange(pts[i]) ELSE acc)

\* Lines 448-455: the running minimum of d2 over the points, from FLT_MAX.
RECURSIVE MinDistance(_, _, _)
MinDistance(pts, i, acc) ==
  IF i > Len(pts) THEN acc
  ELSE MinDistance(pts, i + 1,
                   IF acc > SquaredRange(pts[i]) THEN SquaredRange(pts[i]) ELSE acc)

\* computeSlice is called with n = 10 (line 476).
SliceN == 10

\* Line 417, (int)((z - pc_min[2]) / itv) with itv = (pc_max[2] - pc_min[2]) / n: the
\* operands are floats and the quotient is rounded, so where the exact quotient
\* (z - zmin) * n / (zmax - zmin) is a positive integer q the truncation gives q or
\* q - 1; elsewhere it gives the integer part. The quotient of z = zmin is exactly 0.
SliceQuotients(z, zmin, zmax, n) ==
  LET num == (z - zmin) * n
      den == zmax - zmin
  IN  IF num > 0 /\ num % den = 0 THEN {(num \div den) - 1, num \div den}
      ELSE {num \div den}

\* BinIndex without the std::min of line 417.
BinIndexUnclamped(n, q) == q

\* Line 417: j = std::min(n-1, q).
BinIndex(n, q) == Min2(n - 1, q)

\* Lines 416-419: every way the loop can choose the bins of the points i .. of pts.
RECURSIVE BinRuns(_, _, _, _, _)
BinRuns(pts, zmin, zmax, n, i) ==
  IF i > Len(pts) THEN {<<>>}
  ELSE {<<BinIndex(n, q)>> \o t :
          q \in SliceQuotients(pts[i].z, zmin, zmax, n),
          t \in BinRuns(pts, zmin, zmax, n, i + 1)}

\* blocks[0..n-1] after the loop of lines 416-419: the points pushed to each block,
\* by their position in pts.
Blocks(pts, bins, n) ==
  [b \in 0 .. (n - 1) |->
     SelectSeq([i \in 1 .. Len(pts) |-> i], LAMBDA i : bins[i] = b)]

\* Lines 424-428: the extents <<block_max[0] - block_min[0], block_max[1] - block_min[1]>>
\* of a block of more than 2 points after pca.project.
BlockExtents == {<<0, 0>>, <<3, 1>>}

\* Lines 422-435 from block b on: every way the loop can run, as the pairs written
\* to slice[2b], slice[2b+1].
RECURSIVE BlockRuns(_, _, _)
BlockRuns(blocks, n, b) ==
  IF b >= n THEN {<<>>}
  ELSE {<<e>> \o t :
          e \in (IF Len(blocks[b]) > 2 THEN BlockExtents ELSE {<<0, 0>>}),
          t \in BlockRuns(blocks, n, b + 1)}

\* computeSlice(pc, n, slice), lines 401-437: every outcome, as the blocks built
\* (built FALSE when the branch of line 412 is not taken) and the 20 slice values.
ComputeSlice(pts, n) ==
  LET zmin == GetMin3D(pts).z
      zmax == GetMax3D(pts).z
  IN  IF ~(zmax - zmin > 0)
      THEN {[built |-> FALSE, blocks |-> <<>>, slice |-> [k \in 0 .. 19 |-> 0]]}
      ELSE UNION {
             LET blocks == Blocks(pts, bins, n)
             IN  {[built |-> TRUE, blocks |-> blocks,
                   slice |-> [k \in 0 .. 19 |->
                                IF k < 2 * n THEN ext[(k \div 2) + 1][(k % 2) + 1] ELSE 0]] :
                    ext \in BlockRuns(blocks, n, 0)} :
             bins \in BinRuns(pts, zmin, zmax, n, 1)}

\* Results of the PCL routines extractFeature calls (pca.project,
\* computeCovarianceMatrixNormalized) and of computeMomentOfInertiaTensorNormalized
\* fed with them: one value for the entries of each of covariance_3d and moment_3d.
\* A cluster of one point has no spread: its covariance and moment about the mean
\* are 0.
PclResults(pts) ==
  IF Len(pts) <= 1 THEN {[cov |-> 0, mom |-> 0]}
  ELSE {[cov |-> 1, mom |-> 2], [cov |-> 2, mom |-> 1]}

\* What the fields of `Feature f` (line 287) hold when extractFeature leaves them
\* unwritten: whatever the stack slot held.
JunkValues == {0, 2}

\* extractFeature: f after the call. `junk` is the prior content of f's scalar fields,
\* `slice` what computeSlice left in f.slice.
ExtractFeature(svm, pts, min, max, centroid, pcl, slice, junk) ==
  IF svm
  THEN [centroid |-> centroid, min |-> min, max |-> max,
        number_points |-> Len(pts),
        min_distance  |-> MinDistance(pts, 1, FLT_MAX),
        covariance_3d |-> [k \in 1 .. 6 |-> pcl.cov],
        moment_3d     |-> [k \in 1 .. 6 |-> pcl.mom],
        slice         |-> slice]
  ELSE [centroid |-> centroid, min |-> min, max |-> max,
        number_points |-> junk,
        min_distance  |-> junk,
        covariance_3d |-> [k \in 1 .. 6 |-> junk],
        moment_3d     |-> [k \in 1 .. 6 |-> junk],
        slice         |-> [k \in 0 .. 19 |-> junk]]

\* Lines 255-290 for the clusters k .. indexEC[0] of one region: every way the loop
\* can run, as the sequence of clusters rebuilt (kept = it reached extractFeature).
RECURSIVE ClusterRuns(_, _, _, _)
ClusterRuns(region, res, junk, k) ==
  IF k > res.indexEC[0] THEN {<<>>}
  ELSE LET pts  == ClusterPoints(res.indexEC, res.outputEC, k)
           min  == GetMin3D(pts)
           max  == GetMax3D(pts)
           cen  == Compute3DCentroid(pts)
           base == [region |-> region, read |-> ClusterReads(res.indexEC, k),
                    points |-> pts, min |-> min, max |-> max]
           heads ==
             IF SizeRejects(human_size_limit_, min, max)
             THEN {base @@ [kept |-> FALSE]}
             ELSE {base @@ [kept |-> TRUE,
                            f |-> ExtractFeature(use_svm_model_, pts, min, max, cen,
                                                 pcl, sl.slice, junk)] :
                     pcl \in (IF use_svm_model_ THEN PclResults(pts)
                              ELSE {[cov |-> 0, mom |-> 0]}),
                     sl \in (IF use_svm_model_ THEN ComputeSlice(pts, SliceN)
                             ELSE {[slice |-> [n \in 0 .. 19 |-> 0]]})}
       IN  {<<h>> \o t : h \in heads, t \in ClusterRuns(region, res, junk, k + 1)}

\* Lines 213-296 from region i on, `tolerance` in tenths of a metre: every way the
\* loop can run, as the engine calls made and the clusters rebuilt.
RECURSIVE RegionRuns(_, _, _, _, _)
RegionRuns(pts, ia, i, tolerance, junk) ==
  IF i >= nested_regions_ THEN {[calls |-> <<>>, clusters |-> <<>>]}
  ELSE LET tol  == tolerance + 1
           rest == RegionRuns(pts, ia, i + 1, tol, junk)
       IN  IF ~SizeGreater(Len(ia[i]), cluster_size_min_) THEN rest
           ELSE LET regional == [k \in 1 .. Len(ia[i]) |-> pts[ia[i][k]]]
                    call == [region |-> i, sizeEC |-> Len(regional),
                             minClusterSize |-> cluster_size_min_,
                             maxClusterSize |-> cluster_size_max_,
                             voxelX |-> tol, voxelY |-> tol, voxelZ |-> tol]
                IN  UNION {{[calls |-> <<call @@ res>> \o r.calls,
                             clusters |-> cr \o r.clusters] :
                              cr \in ClusterRuns(i, res, junk, 1), r \in rest} :
                           res \in EngineResults(regional, cluster_size_min_, cluster_size_max_)}

\* The points a frame is drawn from (decimetres): the sensor origin, the outer
\* threshold of region 0, two points of region 1 that are 0.2 x 0.2 x 0.5 m apart,
\* two points of region 13 that are 2 m apart, a point beyond 40 m, a point above
\* z_limit_max_.
PointSet ==
  {[x |-> 0,   y |-> 0, z |-> 0],
   [x |-> 20,  y |-> 0, z |-> 0],
   [x |-> 25,  y |-> 0, z |-> 0],
   [x |-> 27,  y |-> 2, z |-> 5],
   [x |-> 380, y |-> 0, z |-> 6],
   [x |-> 400, y |-> 0, z |-> 0],
   [x |-> 401, y |-> 0, z |-> 0],
   [x |-> 25,  y |-> 0, z |-> 13]}

Frames == UNION {[1 .. n -> PointSet] : n \in 0 .. MaxPoints}

KeptFeatures(cs) ==
  LET kept == SelectSeq(cs, LAMBDA c : c.kept)
  IN  [k \in 1 .. Len(kept) |-> kept[k].f]

\* ClearFeatures without the clear of line 187.
ClearFeaturesSkipped(fs) == fs

\* Line 187: features_.clear().
ClearFeatures(fs) == <<>>

\* pointCloudCallback up to the return of extractCluster(pcl_pc), lines 172-178 and
\* 186-297.
ExtractCluster ==
  /\ pc = "idle"
  /\ \E frame \in {fr \in Frames : Len(fr) <= MaxPoints - received},
        junk \in (IF use_svm_model_ THEN {0} ELSE JunkValues) :
       LET pts == ZFilter(frame)
           ia  == Partition(pts)
       IN  \E run \in RegionRuns(pts, ia, 0, 0, junk) :
             /\ received' = received + Len(frame)
             /\ cloud' = pts
             /\ indices_array' = ia
             /\ ec_calls' = run.calls
             /\ clusters' = run.clusters
             /\ features_' = ClearFeatures(features_) \o KeptFeatures(run.clusters)
  /\ earlier' = features_
  /\ pc' = "extracted"
  /\ UNCHANGED <<svm_log, people, svm_node_, config_vars, scale_vars, slice_vars>>

-----------------------------------------------------------------------------
(* The constructor *)

\* What svm_load_model(model_file_name_) can find: no loadable model (ok FALSE), or a two-class
\* model with or without probability information, whose label array lists the
\* classes in the order the training data introduced them.
ModelFiles ==
  {[ok |-> FALSE, probability |-> FALSE, label |-> <<>>]}
  \cup {[ok |-> TRUE, probability |-> TRUE, label |-> l] : l \in {<<1, -1>>, <<-1, 1>>}}
  \cup {[ok |-> TRUE, probability |-> FALSE, label |-> <<1, -1>>]}

\* What fopen(range_file_name_) can find: no file (ok FALSE), or an "x" header, the target
\* bounds and (index min max) lines. Values are on the grid. These are files as
\* svm-scale writes them, every index within 1 .. FEATURE_SIZE; files with other
\* indices are explored in SpecRange.
RangeLines ==
  {<<[idx |-> 1, fmin |-> 4, fmax |-> 12], [idx |-> 2, fmin |-> 0, fmax |-> 5000]>>,
   [i \in 1 .. FEATURE_SIZE |-> [idx |-> i, fmin |-> 0, fmax |-> 8]]}

RangeFiles ==
  {[ok |-> FALSE, lower |-> 0, upper |-> 0, lines |-> <<>>]}
  \cup {[ok |-> TRUE, lower |-> -4, upper |-> 4, lines |-> ls] : ls \in RangeLines}

\* svm_scale_range_ is a member array no constructor code initialises: before the
\* range file is read its rows hold whatever the object's storage held.
JunkRows == {<<0, 0>>, <<0, JunkHi>>}

\* svm_node_ is allocated with malloc (line 140): its values are whatever the block
\* held.
JunkNodes == {0, JunkHi}

\* The environments the constructor is run in: a model file, a range file, the
\* prior content of the table rows and the content of the block malloc returns.
\* Content the program never reads (the range file when no model was loaded, the
\* model when no range file was opened, the table rows and the block when the
\* detector ends model-free and classify reads neither, the prior content of rows
\* that a file listing every row overwrites) is kept to one representative. The
\* table rows and the block are storage of one process: both hold zeros or both
\* hold the other pattern.
Environments ==
  {e \in [mf : ModelFiles, rf : RangeFiles, row : JunkRows, node : JunkNodes] :
     /\ ~e.mf.ok => Len(e.rf.lines) < FEATURE_SIZE
     /\ ~(e.mf.ok /\ e.rf.ok) => e.row = <<0, 0>>
     /\ (e.mf.ok /\ ~e.rf.ok) => e.mf.probability /\ e.mf.label[1] = 1
     /\ Len(e.rf.lines) = FEATURE_SIZE => e.row = <<0, 0>>
     /\ e.node = e.row[2]}

\* The members the range loop works on, after the fscanf of line 147 when both
\* files were opened: the table rows hold what the storage held, the target bounds
\* are the file's. With no range file read the bounds too are what the storage held.
CtorState(e) ==
  [table       |-> [i \in Dims |-> e.row],
   x_lower     |-> IF e.mf.ok /\ e.rf.ok THEN e.rf.lower ELSE e.row[1],
   x_upper     |-> IF e.mf.ok /\ e.rf.ok THEN e.rf.upper ELSE e.row[2],
   probability |-> IF e.mf.ok THEN e.mf.probability ELSE FALSE,
   rows        |-> <<>>]

\* Lines 152-153 for one accepted line: svm_scale_range_[idx-1][0] = fmin and
\* svm_scale_range_[idx-1][1] = fmax, every outcome. No statement compares idx with
\* the table's size: a row outside 0 .. FEATURE_SIZE-1 is a write outside the array,
\* which is undefined; it may leave the members modelled here as they were or land
\* in the members stored next to the table (is_probability_model_ declared before
\* it, svm_x_lower_ and svm_x_upper_ declared after it).
RowWrite(st, line) ==
  LET row == line.idx - 1
      logged == [st EXCEPT !.rows = Append(@, row)]
  IN  IF row \in Dims
      THEN {[logged EXCEPT !.table[row] = <<line.fmin, line.fmax>>]}
      ELSE {logged,
            [logged EXCEPT !.x_lower = line.fmin, !.x_upper = line.fmax],
            [logged EXCEPT !.probability = ~@]}

\* Lines 151-155: every state the fscanf loop can end in, from line k of the file on.
RECURSIVE LoadRange(_, _, _)
LoadRange(st, lines, k) ==
  IF k > Len(lines) THEN {st}
  ELSE UNION {LoadRange(w, lines, k + 1) : w \in RowWrite(st, lines[k])}

\* CtorUseSvmModel with use_svm_model_ = true set once the model is loaded,
\* whether or not the range file opened.
CtorUseSvmModelOnModelOnly(mf, rf) == mf.ok

\* Lines 134-161: use_svm_model_ after the constructor.
CtorUseSvmModel(mf, rf) == mf.ok /\ rf.ok

\* Object3dDetector::Object3dDetector().
Init ==
  /\ \E e \in Environments :
       /\ model_file = e.mf
       /\ range_file = e.rf
       /\ use_svm_model_ = CtorUseSvmModel(e.mf, e.rf)
       /\ \E st \in (IF e.mf.ok /\ e.rf.ok THEN LoadRange(CtorState(e), e.rf.lines, 1)
                     ELSE {CtorState(e)}) :
            /\ is_probability_model_ = st.probability
            /\ svm_scale_range_ = st.table
            /\ svm_x_lower_ = st.x_lower
            /\ svm_x_upper_ = st.x_upper
            /\ range_rows = st.rows
            /\ range_pos = Len(st.rows)
       /\ svm_node_ = IF e.mf.ok THEN [i \in Dims |-> Rat(e.node, 1)] ELSE <<>>
  /\ cluster_size_min_ \in {-1, 0, 1}
  /\ human_size_limit_ \in BOOLEAN
  /\ pc = "idle"
  /\ received = 0
  /\ earlier = <<>>
  /\ cloud = <<>>
  /\ indices_array = [j \in Regions |-> <<>>]
  /\ ec_calls = <<>>
  /\ clusters = <<>>
  /\ features_ = <<>>
  /\ svm_log = <<>>
  /\ people = <<>>
  /\ scale_in = [value |-> 0, lower |-> 0, upper |-> 0, x_lower |-> 0, x_upper |-> 0]
  /\ scale_out = Rat(0, 1)
  /\ slice_in = <<>>
  /\ slice_out = [built |-> FALSE, blocks |-> <<>>, slice |-> [k \in 0 .. 19 |-> 0]]

-----------------------------------------------------------------------------
(* classify *)

\* saveFeature(f, x): x[0..FEATURE_SIZE-1].value after the call (x[i].index is i+1,
\* x[FEATURE_SIZE].index -1). Lines 481-494 write x[0..13], the loop of lines 507-510
\* writes x[14..33]; an entry neither writes keeps what x held.
SaveFeature(f, x) ==
  [i \in Dims |->
     IF i = 0 THEN ToDouble(f.number_points)
     ELSE IF i = 1 THEN ToDouble(f.min_distance)
     ELSE IF i <= 7 THEN ToDouble(f.covariance_3d[i - 1])
     ELSE IF i <= 13 THEN ToDouble(f.moment_3d[i - 7])
     ELSE IF i < 14 + 20 THEN ToDouble(f.slice[i - 14])
     ELSE x[i]]

\* ScaleValue without the two snapping branches (interpolation only).
ScaleValueNoSnap(value, lower, upper, x_lower, x_upper) ==
  IF Abs(lower - upper) < Eps THEN Rat(value, 1)
  ELSE Rat(x_lower * (upper - lower) + (x_upper - x_lower) * (value - lower),
           upper - lower)

\* Lines 531-542 for one dimension: svm_node_[i].value after the loop body.
ScaleValue(value, lower, upper, x_lower, x_upper) ==
  IF Abs(lower - upper) < Eps THEN Rat(value, 1)
  ELSE IF Abs(value - lower) < Eps THEN Rat(x_lower, 1)
  ELSE IF Abs(value - upper) < Eps THEN Rat(x_upper, 1)
  ELSE Rat(x_lower * (upper - lower) + (x_upper - x_lower) * (value - lower),
           upper - lower)

\* Lines 530-543: the whole vector.
ScaleData(x) ==
  [i \in Dims |->
     ScaleValue(x[i], svm_scale_range_[i][1], svm_scale_range_[i][2],
                svm_x_lower_, svm_x_upper_)]

\* The probability, in percent, the classifier gives the human class (code 1).
HumanProbs == {65, 70, 75}

\* svm_predict_probability: prob_estimates[k] is the probability of the class
\* model->label[k].
ProbEstimates(label, p_human) ==
  [k \in 0 .. 1 |-> IF label[k + 1] = 1 THEN p_human ELSE 100 - p_human]

\* FeatureKept without the use_svm_model_ guard of line 525.
FeatureKeptUnguarded(svm, probability, prob_estimates, predicted) ==
  IF probability THEN ~(prob_estimates[0] < human_probability_)
  ELSE ~(predicted # 1)

\* Lines 525-557: TRUE when the feature is kept (no `continue`).
FeatureKept(svm, probability, prob_estimates, predicted) ==
  IF svm
  THEN IF probability THEN ~(prob_estimates[0] < human_probability_)
       ELSE ~(predicted # 1)
  ELSE TRUE

\* Lines 610-620: the record pushed for a kept feature.
Detection(f) == [centroid |-> f.centroid, min |-> f.min, max |-> f.max]

\* What the classifier can answer for one feature: the probability of the human
\* class (svm_predict_probability) or a class code (svm_predict).
Answers(probability, label) ==
  IF probability
  THEN {[p_human |-> p, prob_estimates |-> ProbEstimates(label, p), predicted |-> 0] :
          p \in HumanProbs}
  ELSE {[p_human |-> 0, prob_estimates |-> [c \in 0 .. 1 |-> 0], predicted |-> l] :
          l \in {1, -1}}

\* Lines 524-621 from feature k on: every way the loop can run. `node` is the
\* content of svm_node_.
RECURSIVE ClassifyRuns(_, _)
ClassifyRuns(k, node) ==
  IF k > Len(features_) THEN {[node |-> node, log |-> <<>>, people |-> <<>>]}
  ELSE
    LET x      == SaveFeature(features_[k], node)
        scaled == ScaleData(x)
        after  == IF use_svm_model_ THEN scaled ELSE node
        answers == IF use_svm_model_ THEN Answers(is_probability_model_, model_file.label)
                   ELSE {[p_human |-> 0, prob_estimates |-> [c \in 0 .. 1 |-> 0], predicted |-> 0]}
    IN  UNION {
          LET keep  == FeatureKept(use_svm_model_, is_probability_model_,
                                   a.prob_estimates, a.predicted)
              entry == IF use_svm_model_
                       THEN [feature |-> k, svm_called |-> TRUE, kept |-> keep,
                             x |-> x, scaled |-> scaled, answer |-> a]
                       ELSE [feature |-> k, svm_called |-> FALSE, kept |-> keep]
          IN  {[node |-> r.node, log |-> <<entry>> \o r.log,
                people |-> (IF keep THEN <<Detection(features_[k])>> ELSE <<>>) \o r.people] :
                 r \in ClassifyRuns(k + 1, after)} :
          a \in answers}

\* classify(), lines 519-638.
Classify ==
  /\ pc = "extracted"
  /\ \E run \in ClassifyRuns(1, svm_node_) :
       /\ svm_node_' = run.node
       /\ svm_log' = run.log
       /\ people' = run.people
  /\ pc' = "published"
  /\ UNCHANGED <<received, earlier, cloud, indices_array, ec_calls, clusters, features_,
                 config_vars, scale_vars, slice_vars>>

\* pointCloudCallback returns (line 182): the clouds, the engine's buffers and the
\* messages of the call are gone, the members stay as the call left them.
Return ==
  /\ pc = "published"
  /\ pc' = "idle"
  /\ earlier' = <<>>
  /\ cloud' = <<>>
  /\ indices_array' = [j \in Regions |-> <<>>]
  /\ ec_calls' = <<>>
  /\ clusters' = <<>>
  /\ svm_log' = <<>>
  /\ people' = <<>>
  /\ UNCHANGED <<received, features_, svm_node_, config_vars, scale_vars, slice_vars>>

Next == ExtractCluster \/ Classify \/ Return

Spec == Init /\ [][Next]_vars

-----------------------------------------------------------------------------
(* The scaling of one dimension on its own: every combination of a raw value, a
   stored range and target bounds on a small grid. *)

ScaleMax == 5

ScaleInputs ==
  [value : 0 .. ScaleMax, lower : 0 .. ScaleMax, upper : 0 .. ScaleMax,
   x_lower : {-4, 0}, x_upper : {4}]

InitScale ==
  /\ model_file = [ok |-> TRUE, probability |-> TRUE, label |-> <<1, -1>>]
  /\ range_file = [ok |-> TRUE, lower |-> -4, upper |-> 4, lines |-> <<>>]
  /\ cluster_size_min_ = 1
  /\ human_size_limit_ = FALSE
  /\ use_svm_model_ = TRUE
  /\ is_probability_model_ = TRUE
  /\ svm_scale_range_ = [i \in Dims |-> <<0, 0>>]
  /\ svm_x_lower_ = -4
  /\ svm_x_upper_ = 4
  /\ range_pos = 0
  /\ range_rows = <<>>
  /\ svm_node_ = <<>>
  /\ pc = "scale"
  /\ received = 0
  /\ earlier = <<>>
  /\ cloud = <<>>
  /\ indices_array = [j \in Regions |-> <<>>]
  /\ ec_calls = <<>>
  /\ clusters = <<>>
  /\ features_ = <<>>
  /\ svm_log = <<>>
  /\ people = <<>>
  /\ scale_in \in ScaleInputs
  /\ scale_out = Rat(0, 1)
  /\ slice_in = <<>>
  /\ slice_out = [built |-> FALSE, blocks |-> <<>>, slice |-> [k \in 0 .. 19 |-> 0]]

\* The body of the loop of lines 530-543 applied to scale_in.
ScaleStep ==
  /\ pc = "scale"
  /\ scale_out' = ScaleValue(scale_in.value, scale_in.lower, scale_in.upper,
                             scale_in.x_lower, scale_in.x_upper)
  /\ pc' = "scaled"
  /\ UNCHANGED <<received, earlier, cloud, indices_array, ec_calls, clusters, features_,
                 svm_log, people, svm_node_, config_vars, scale_in, slice_vars>>

NextScale == ScaleStep

SpecScale == InitScale /\ [][NextScale]_vars

-----------------------------------------------------------------------------
(* The range loop of the constructor on its own, one accepted line at a step: a
   model was loaded, the range file was opened and holds up to MaxRangeLines
   (index min max) lines whose index is any of RangeIndices. *)

MaxRangeLines == 2

RangeIndices == {-1, 0, 1, FEATURE_SIZE, FEATURE_SIZE + 1}

AnyRangeFiles ==
  {[ok |-> TRUE, lower |-> -4, upper |-> 4, lines |-> ls] :
     ls \in UNION {[1 .. m -> {[idx |-> i, fmin |-> 4, fmax |-> 12] : i \in RangeIndices}] :
                    m \in 0 .. MaxRangeLines}}

RangeEnvironments ==
  [mf : {f \in ModelFiles : f.ok}, rf : AnyRangeFiles, row : JunkRows, node : {0}]

\* The constructor at line 149: lines 134-147 are done.
InitRange ==
  /\ \E e \in RangeEnvironments :
       /\ model_file = e.mf
       /\ range_file = e.rf
       /\ is_probability_model_ = CtorState(e).probability
       /\ svm_scale_range_ = CtorState(e).table
       /\ svm_x_lower_ = CtorState(e).x_lower
       /\ svm_x_upper_ = CtorState(e).x_upper
       /\ range_rows = CtorState(e).rows
       /\ svm_node_ = [i \in Dims |-> Rat(e.node, 1)]
  /\ use_svm_model_ = FALSE
  /\ range_pos = 0
  /\ cluster_size_min_ = 1
  /\ human_size_limit_ = FALSE
  /\ pc = "loading"
  /\ received = 0
  /\ earlier = <<>>
  /\ cloud = <<>>
  /\ indices_array = [j \in Regions |-> <<>>]
  /\ ec_calls = <<>>
  /\ clusters = <<>>
  /\ features_ = <<>>
  /\ svm_log = <<>>
  /\ people = <<>>
  /\ scale_in = [value |-> 0, lower |-> 0, upper |-> 0, x_lower |-> 0, x_upper |-> 0]
  /\ scale_out = Rat(0, 1)
  /\ slice_in = <<>>
  /\ slice_out = [built |-> FALSE, blocks |-> <<>>, slice |-> [k \in 0 .. 19 |-> 0]]

\* One iteration of the loop of lines 151-155: fscanf accepts the next line and the
\* body writes the row.
LoadRangeLine ==
  /\ pc = "loading"
  /\ range_pos < Len(range_file.lines)
  /\ \E st \in RowWrite([table |-> svm_scale_range_, x_lower |-> svm_x_lower_,
                          x_upper |-> svm_x_upper_, probability |-> is_probability_model_,
                          rows |-> range_rows],
                         range_file.lines[range_pos + 1]) :
       /\ svm_scale_range_' = st.table
       /\ svm_x_lower_' = st.x_lower
       /\ svm_x_upper_' = st.x_upper
       /\ is_probability_model_' = st.probability
       /\ range_rows' = st.rows
  /\ range_pos' = range_pos + 1
  /\ UNCHANGED <<model_file, range_file, cluster_size_min_, human_size_limit_,
                 use_svm_model_, frame_vars, scale_vars, slice_vars>>

\* Lines 151 and 156-157: fscanf finds no further line, the file is closed and
\* use_svm_model_ is set.
LoadRangeEnd ==
  /\ pc = "loading"
  /\ range_pos = Len(range_file.lines)
  /\ use_svm_model_' = CtorUseSvmModel(model_file, range_file)
  /\ pc' = "idle"
  /\ UNCHANGED <<model_file, range_file, cluster_size_min_, human_size_limit_,
                 is_probability_model_, svm_scale_range_, svm_x_lower_, svm_x_upper_,
                 range_pos, range_rows, received, earlier, cloud, indices_array, ec_calls,
                 clusters, features_, svm_log, people, svm_node_, scale_vars, slice_vars>>

NextRange == LoadRangeLine \/ LoadRangeEnd

SpecRange == InitRange /\ [][NextRange]_vars

-----------------------------------------------------------------------------
(* computeSlice on its own: every cloud of up to MaxSlicePoints points whose heights
   are drawn from SliceZs (decimetres). *)

MaxSlicePoints == 4

SliceZs == {0, 1, 5, 9, 10}

SliceInputs ==
  UNION {[1 .. m -> {[x |-> 25, y |-> 0, z |-> z] : z \in SliceZs}] : m \in 1 .. MaxSlicePoints}

InitSlice ==
  /\ model_file = [ok |-> TRUE, probability |-> TRUE, label |-> <<1, -1>>]
  /\ range_file = [ok |-> TRUE, lower |-> -4, upper |-> 4, lines |-> <<>>]
  /\ cluster_size_min_ = 1
  /\ human_size_limit_ = FALSE
  /\ use_svm_model_ = TRUE
  /\ is_probability_model_ = TRUE
  /\ svm_scale_range_ = [i \in Dims |-> <<0, 0>>]
  /\ svm_x_lower_ = -4
  /\ svm_x_upper_ = 4
  /\ range_pos = 0
  /\ range_rows = <<>>
  /\ svm_node_ = <<>>
  /\ pc = "slice"
  /\ received = 0
  /\ earlier = <<>>
  /\ cloud = <<>>
  /\ indices_array = [j \in Regions |-> <<>>]
  /\ ec_calls = <<>>
  /\ clusters = <<>>
  /\ features_ = <<>>
  /\ svm_log = <<>>
  /\ people = <<>>
  /\ scale_in = [value |-> 0, lower |-> 0, upper |-> 0, x_lower |-> 0, x_upper |-> 0]
  /\ scale_out = Rat(0, 1)
  /\ slice_in \in SliceInputs
  /\ slice_out = [built |-> FALSE, blocks |-> <<>>, slice |-> [k \in 0 .. 19 |-> 0]]

\* computeSlice(pc, 10, f.slice) applied to slice_in.
SliceStep ==
  /\ pc = "slice"
  /\ slice_out' \in ComputeSlice(slice_in, SliceN)
  /\ pc' = "sliced"
  /\ UNCHANGED <<received, earlier, cloud, indices_array, ec_calls, clusters, features_,
                 svm_log, people, svm_node_, config_vars, scale_vars, slice_in>>

NextSlice == SliceStep

SpecSlice == InitSlice /\ [][NextSlice]_vars

-----------------------------------------------------------------------------
(* Claims *)

\* How often index i of the filtered cloud occurs in the 14 region index lists.
Occurrences(i) ==
  Cardinality({jk \in UNION {{<<j, k>> : k \in 1 .. Len(indices_array[j])} : j \in Regions} :
                 indices_array[jk[1]][jk[2]] = i})

\* C1 as stated: after the partition loop every point that passed the z filter is
\* in exactly one of the 14 region index lists, the point at the sensor origin and
\* a point beyond 40 m included.
C1_EveryPointInExactlyOneRegion ==
  pc # "idle" => \A i \in 1 .. Len(cloud) : Occurrences(i) = 1

\* C1 amended: no point that passed the z filter is in two region index lists, and a
\* point is in one exactly when its squared range d2 satisfies 0 < d2 <= (40 m)^2;
\* a point at the sensor origin and a point beyond 40 m are in none.
C1_AtMostOneRegionAndOneIffInRange ==
  pc # "idle" =>
    \A i \in 1 .. Len(cloud) :
      /\ Occurrences(i) <= 1
      /\ Occurrences(i) = 1 <=>
           (0 < SquaredRange(cloud[i]) /\ SquaredRange(cloud[i]) <= 160000)

C1_Witness ==
  /\ pc = "extracted"
  /\ \E i, j \in 1 .. Len(cloud) :
       /\ SquaredRange(cloud[i]) = 0 /\ Occurrences(i) = 0
       /\ SquaredRange(cloud[j]) > 160000 /\ Occurrences(j) = 0

\* The cumulative thresholds of C2, in metres: T(-1) = 0, T(b) = T(b-1) + width[b].
C2_Width == <<2, 3, 3, 3, 3, 3, 3, 2, 3, 3, 3, 3, 3, 3>>

RECURSIVE C2_T(_)
C2_T(b) == IF b < 0 THEN 0 ELSE C2_T(b - 1) + C2_Width[b + 1]

C2_Threshold == [b \in -1 .. 13 |-> C2_T(b)]

C2_InBand(d2, b) ==
  /\ 100 * C2_Threshold[b - 1] * C2_Threshold[b - 1] < d2
  /\ d2 <= 100 * C2_Threshold[b] * C2_Threshold[b]

\* C2: a point is in the index list of region b if and only if b is the smallest
\* index with T(b-1)^2 < d2 <= T(b)^2; a point on a band's outer threshold is in the
\* inner band and a point at range 2.5 m is in region 1.
C2_RegionIsFirstBandHoldingRange ==
  pc # "idle" =>
    \A i \in 1 .. Len(cloud) : \A b \in Regions :
      (\E k \in 1 .. Len(indices_array[b]) : indices_array[b][k] = i)
        <=> (/\ C2_InBand(SquaredRange(cloud[i]), b)
             /\ \A a \in 0 .. (b - 1) : ~C2_InBand(SquaredRange(cloud[i]), a))

C2_Witness ==
  /\ pc = "extracted"
  /\ \E i, j \in 1 .. Len(cloud) :
       /\ SquaredRange(cloud[i]) = 400 /\ indices_array[0] = <<i>>
       /\ SquaredRange(cloud[j]) = 625 /\ indices_array[1] = <<j>>

CallsFor(i) == {k \in 1 .. Len(ec_calls) : ec_calls[k].region = i}

C3_CallsAsClaimed ==
  \A i \in Regions :
    /\ Len(indices_array[i]) > cluster_size_min_ => Cardinality(CallsFor(i)) = 1
    /\ Len(indices_array[i]) <= cluster_size_min_ => Cardinality(CallsFor(i)) = 0
    /\ \A k \in CallsFor(i) :
         /\ ec_calls[k].voxelX = i + 1
         /\ ec_calls[k].voxelY = i + 1
         /\ ec_calls[k].voxelZ = i + 1
         /\ ec_calls[k].minClusterSize = cluster_size_min_
         /\ ec_calls[k].maxClusterSize = cluster_size_max_

\* C3: in one frame the clustering engine is called exactly once for each region
\* holding more than cluster_size_min points and never for a region holding
\* cluster_size_min points or fewer; the tolerance for region i is 0.1*(i+1) on the
\* three axes (tenths of a metre here), the sizes cluster_size_min/cluster_size_max.
C3_ClusteringOncePerLargeRegion == pc # "idle" => C3_CallsAsClaimed

\* C3 holds of every frame when cluster_size_min is not negative.
C3_HoldsForNonNegativeMin == (pc # "idle" /\ cluster_size_min_ >= 0) => C3_CallsAsClaimed

SetMax(S) == CHOOSE m \in S : \A n \in S : n <= m

SetMin(S) == CHOOSE m \in S : \A n \in S : m <= n

ExtentX(pts) == SetMax({pts[k].x : k \in 1 .. Len(pts)}) - SetMin({pts[k].x : k \in 1 .. Len(pts)})

ExtentY(pts) == SetMax({pts[k].y : k \in 1 .. Len(pts)}) - SetMin({pts[k].y : k \in 1 .. Len(pts)})

ExtentZ(pts) == SetMax({pts[k].z : k \in 1 .. Len(pts)}) - SetMin({pts[k].z : k \in 1 .. Len(pts)})

HumanSized(pts) ==
  /\ 2 <= ExtentX(pts) /\ ExtentX(pts) <= 10
  /\ 2 <= ExtentY(pts) /\ ExtentY(pts) <= 10
  /\ 5 <= ExtentZ(pts) /\ ExtentZ(pts) <= 20

KeptClusters == SelectSeq(clusters, LAMBDA c : c.kept)

\* C4: with human_size_limit enabled a returned cluster reaches extractFeature and
\* the feature list if and only if 0.2 <= dx <= 1.0, 0.2 <= dy <= 1.0 and
\* 0.5 <= dz <= 2.0 (bounds inclusive); with it disabled every returned cluster
\* does; the feature list and the output hold no rejected cluster.
C4_SizeGate ==
  pc # "idle" =>
    /\ \A k \in 1 .. Len(clusters) :
         clusters[k].kept <=> (~human_size_limit_ \/ HumanSized(clusters[k].points))
    /\ Len(features_) = Len(KeptClusters)
    /\ \A k \in 1 .. Len(features_) :
         /\ features_[k].min = KeptClusters[k].min
         /\ features_[k].max = KeptClusters[k].max
    /\ \A d \in 1 .. Len(people) :
         \E k \in 1 .. Len(KeptClusters) :
           /\ people[d].min = KeptClusters[k].min
           /\ people[d].max = KeptClusters[k].max
           /\ human_size_limit_ => HumanSized(KeptClusters[k].points)

C4_Witness ==
  /\ pc = "published"
  /\ human_size_limit_
  /\ Len(people) = 1
  /\ \E k \in 1 .. Len(clusters) :
       /\ clusters[k].kept
       /\ ExtentX(clusters[k].points) = 2
       /\ ExtentY(clusters[k].points) = 2
       /\ ExtentZ(clusters[k].points) = 5

RECURSIVE C5_SizeSum(_, _)
C5_SizeSum(indexEC, k) == IF k = 0 THEN 0 ELSE indexEC[k] + C5_SizeSum(indexEC, k - 1)

\* The clusters of the log in the order claimed: ascending region, and within a
\* region the groups of the engine's buffers in the engine's order.
C5_ClustersInOrder ==
  /\ \A a, b \in 1 .. Len(clusters) : a < b => clusters[a].region <= clusters[b].region
  /\ \A c \in 1 .. Len(ec_calls) :
       LET own == SelectSeq(clusters, LAMBDA cl : cl.region = ec_calls[c].region)
       IN  /\ Len(own) = ec_calls[c].indexEC[0]
           /\ \A k \in 1 .. Len(own) :
                own[k].points = SubSeq(ec_calls[c].outputEC,
                                       C5_SizeSum(ec_calls[c].indexEC, k - 1) + 1,
                                       C5_SizeSum(ec_calls[c].indexEC, k))

\* C5: in model-free mode the detections assembled by classify() are exactly the
\* clusters that survived the gate, one record each, in the order they were
\* appended (ascending region, then the engine's order within a region).
C5_ModelFreeKeepsEverySurvivor ==
  (pc = "published" /\ ~use_svm_model_) =>
    /\ C5_ClustersInOrder
    /\ Len(people) = Len(KeptClusters)
    /\ \A k \in 1 .. Len(people) :
         /\ people[k].min = KeptClusters[k].min
         /\ people[k].max = KeptClusters[k].max
         /\ people[k].centroid = KeptClusters[k].f.centroid

C5_Witness ==
  /\ pc = "published"
  /\ ~use_svm_model_
  /\ Len(people) = 2
  /\ people[1] # people[2]
  /\ Len(ec_calls) = 2

\* C6: with a probability model loaded a cluster is in the output if and only if
\* the probability the classifier gives the human class (code 1) is at least
\* human_probability, for every order in which the model lists its classes.
C6_KeptIffHumanProbabilityAtLeastThreshold ==
  (pc = "published" /\ use_svm_model_ /\ is_probability_model_) =>
    /\ \A k \in 1 .. Len(svm_log) :
         svm_log[k].kept <=> svm_log[k].answer.p_human >= human_probability_
    /\ Len(people) = Cardinality({k \in 1 .. Len(svm_log) : svm_log[k].kept})

\* C6 holds of a model that lists the human class first.
C6_HoldsWhenHumanClassIsFirst ==
  (pc = "published" /\ use_svm_model_ /\ is_probability_model_ /\ model_file.label[1] = 1) =>
    \A k \in 1 .. Len(svm_log) :
      svm_log[k].kept <=> svm_log[k].answer.p_human >= human_probability_

\* t_lo + (t_hi - t_lo) * (value - lower) / (upper - lower), as a fraction n/d
\* compared with the fraction r by cross-multiplication.
C7_IsInterpolation(r, in) ==
  r.num * (in.upper - in.lower)
    = r.den * (in.x_lower * (in.upper - in.lower)
               + (in.x_upper - in.x_lower) * (in.value - in.lower))

C7_IsValue(r, v) == r.num = v * r.den

\* C7 as stated: the value handed to the classifier is the raw value when
\* |lower-upper| < eps; otherwise exactly t_lo when the raw value equals lower,
\* exactly t_hi when it equals upper, and the interpolation
\* t_lo + (t_hi-t_lo)*(value-lower)/(upper-lower) in every other case.
C7_SnapOnlyOnEquality ==
  pc = "scaled" =>
    IF Abs(scale_in.lower - scale_in.upper) < Eps THEN C7_IsValue(scale_out, scale_in.value)
    ELSE IF scale_in.value = scale_in.lower THEN C7_IsValue(scale_out, scale_in.x_lower)
    ELSE IF scale_in.value = scale_in.upper THEN C7_IsValue(scale_out, scale_in.x_upper)
    ELSE C7_IsInterpolation(scale_out, scale_in)

\* C7 amended: the value handed to the classifier is the raw value when
\* |lower-upper| < eps; otherwise exactly t_lo when |value-lower| < eps, else exactly
\* t_hi when |value-upper| < eps, and the interpolation in every other case.
C7_SnapWithinEps ==
  pc = "scaled" =>
    IF Abs(scale_in.lower - scale_in.upper) < Eps THEN C7_IsValue(scale_out, scale_in.value)
    ELSE IF Abs(scale_in.value - scale_in.lower) < Eps
         THEN C7_IsValue(scale_out, scale_in.x_lower)
    ELSE IF Abs(scale_in.value - scale_in.upper) < Eps
         THEN C7_IsValue(scale_out, scale_in.x_upper)
    ELSE C7_IsInterpolation(scale_out, scale_in)

C7_Witness ==
  /\ pc = "scaled"
  /\ Abs(scale_in.lower - scale_in.upper) >= Eps
  /\ scale_in.value # scale_in.lower
  /\ Abs(scale_in.value - scale_in.lower) < Eps
  /\ C7_IsValue(scale_out, scale_in.x_lower)
  /\ ~C7_IsInterpolation(scale_out, scale_in)

\* The 0-based dimensions some (index min max) line of the range file names.
C8_Listed == {range_file.lines[k].idx - 1 : k \in 1 .. Len(range_file.lines)}

\* C8: after the range file has been loaded, a dimension no line of the file names
\* is scaled as a no-op: the value handed to the classifier is the raw value.
C8_UnlistedDimensionsUnscaled ==
  (pc = "published" /\ use_svm_model_) =>
    \A k \in 1 .. Len(svm_log) : \A i \in Dims \ C8_Listed :
      C7_IsValue(svm_log[k].scaled[i], svm_log[k].x[i])

\* C9: after construction use_svm_model_ holds if and only if both the model file
\* and the range file were opened; otherwise the detector is model-free and every
\* later frame is processed with accept-all and without a call to the classifier.
C9_ClassifierModeIffBothFilesLoaded ==
  /\ use_svm_model_ <=> (model_file.ok /\ range_file.ok)
  /\ ~(model_file.ok /\ range_file.ok) =>
       /\ \A k \in 1 .. Len(svm_log) : ~svm_log[k].svm_called /\ svm_log[k].kept
       /\ pc = "published" => Len(people) = Len(features_) /\ Len(svm_log) = Len(features_)

C9_Witness ==
  /\ pc = "published"
  /\ model_file.ok
  /\ ~range_file.ok
  /\ ~use_svm_model_
  /\ Len(people) = 2

C10_CountAndMinDistance ==
  \A k \in 1 .. Len(features_) :
    /\ features_[k].number_points = Len(KeptClusters[k].points)
    /\ features_[k].min_distance
         = SetMin({SquaredRange(KeptClusters[k].points[n]) :
                     n \in 1 .. Len(KeptClusters[k].points)})

C11_BinCount(i) ==
  Cardinality({bk \in UNION {{<<b, k>> : k \in 1 .. Len(slice_out.blocks[b])} :
                               b \in DOMAIN slice_out.blocks} :
                 slice_out.blocks[bk[1]][bk[2]] = i})

C11_ZMin == SetMin({slice_in[i].z : i \in 1 .. Len(slice_in)})

C11_ZMax == SetMax({slice_in[i].z : i \in 1 .. Len(slice_in)})

\* C11: in computeSlice with n = 10 every cluster point is put in exactly one bin
\* with index in 0..9, the index the code computes (the integer part of
\* (z - zmin)/itv, rounded as the division rounds, capped at 9), the point with
\* z = zmax in bin 9; each bin holding 2 points or fewer contributes (0,0) at slice
\* positions 2b and 2b+1; when zmax = zmin all 20 slice values are 0 and no bin is
\* built.
C11_SliceBins ==
  pc = "sliced" =>
    /\ C11_ZMax = C11_ZMin =>
          /\ ~slice_out.built
          /\ \A k \in 0 .. 19 : slice_out.slice[k] = 0
    /\ C11_ZMax > C11_ZMin =>
          /\ slice_out.built
          /\ DOMAIN slice_out.blocks = 0 .. 9
          /\ \A i \in 1 .. Len(slice_in) :
                /\ C11_BinCount(i) = 1
                /\ \A b \in 0 .. 9 :
                     (\E k \in 1 .. Len(slice_out.blocks[b]) : slice_out.blocks[b][k] = i)
                       => LET num == (slice_in[i].z - C11_ZMin) * 10
                              den == C11_ZMax - C11_ZMin
                          IN  /\ b * den <= num
                              /\ b < 9 => num <= (b + 1) * den
                /\ slice_in[i].z = C11_ZMax =>
                     \E k \in 1 .. Len(slice_out.blocks[9]) : slice_out.blocks[9][k] = i
          /\ \A b \in 0 .. 9 :
                Len(slice_out.blocks[b]) <= 2 =>
                  slice_out.slice[2 * b] = 0 /\ slice_out.slice[2 * b + 1] = 0

\* A cloud of four points: three share a bin that gets a non-zero descriptor, the
\* highest point is in bin 9, whose descriptor is (0,0).
C11_Witness ==
  /\ pc = "sliced"
  /\ slice_out.built
  /\ \E b \in 0 .. 8 :
       /\ Len(slice_out.blocks[b]) = 3
       /\ slice_out.slice[2 * b] # 0
  /\ Len(slice_out.blocks[9]) = 1
  /\ slice_in[slice_out.blocks[9][1]].z = C11_ZMax
  /\ slice_out.slice[18] = 0 /\ slice_out.slice[19] = 0

RECURSIVE C12_S(_, _)
C12_S(indexEC, k) == IF k = 0 THEN 0 ELSE C12_S(indexEC, k - 1) + indexEC[k]

C12_Own(c) == SelectSeq(clusters, LAMBDA cl : cl.region = ec_calls[c].region)

\* C12: for every region, when the engine reports c = indexEC[0] clusters with sizes
\* indexEC[1..c] whose sum does not exceed the region's point count, the c clusters
\* rebuilt read pairwise disjoint, contiguous ranges of the output buffer: cluster i
\* reads exactly the positions S(i-1) .. S(i-1)+indexEC[i]-1, S(k) the sum of the
\* first k sizes, and every position read is below the region's point count.
C12_ClustersReadDisjointRanges ==
  pc # "idle" =>
    \A c \in 1 .. Len(ec_calls) :
      LET own     == C12_Own(c)
          indexEC == ec_calls[c].indexEC
      IN  C12_S(indexEC, indexEC[0]) <= ec_calls[c].sizeEC =>
            /\ Len(own) = indexEC[0]
            /\ \A i \in 1 .. Len(own) :
                 /\ Len(own[i].read) = indexEC[i]
                 /\ \A k \in 1 .. Len(own[i].read) :
                      /\ own[i].read[k] = C12_S(indexEC, i - 1) + (k - 1)
                      /\ own[i].read[k] < ec_calls[c].sizeEC
            /\ \A i, j \in 1 .. Len(own) :
                 i # j => \A k \in 1 .. Len(own[i].read) :
                           \A l \in 1 .. Len(own[j].read) :
                             own[i].read[k] # own[j].read[l]

\* A region of two points the engine splits into two clusters of one point: the
\* second cluster reads position 1.
C12_Witness ==
  /\ pc = "extracted"
  /\ \E c \in 1 .. Len(ec_calls) :
       /\ ec_calls[c].indexEC[0] = 2
       /\ Len(C12_Own(c)) = 2
       /\ C12_Own(c)[1].read = <<0>>
       /\ C12_Own(c)[2].read = <<1>>
       /\ C12_Own(c)[1].points # C12_Own(c)[2].points

\* The value saveFeature gives dimension i for the Feature f.
C13_ValueOf(f, i) ==
  IF i = 0 THEN f.number_points * GridPerUnit
  ELSE IF i = 1 THEN f.min_distance * GridPerUnit
  ELSE IF i \in 2 .. 7 THEN f.covariance_3d[i - 1] * GridPerUnit
  ELSE IF i \in 8 .. 13 THEN f.moment_3d[i - 7] * GridPerUnit
  ELSE f.slice[i - 14] * GridPerUnit

C13_FrameOnly ==
  LET kept == KeptClusters
  IN  /\ pc # "idle" =>
            /\ Len(features_) = Len(kept)
            /\ \A k \in 1 .. Len(features_) : features_[k] = kept[k].f
      /\ pc = "published" =>
            /\ \A d \in 1 .. Len(people) :
                  \E k \in 1 .. Len(kept) :
                    people[d] = [centroid |-> Compute3DCentroid(kept[k].points),
                                 min |-> kept[k].min, max |-> kept[k].max]
            /\ \A k \in 1 .. Len(svm_log) :
                  svm_log[k].svm_called =>
                    /\ DOMAIN svm_log[k].x = 0 .. 33
                    /\ \A i \in 0 .. 33 :
                         svm_log[k].x[i] = C13_ValueOf(kept[svm_log[k].feature].f, i)

C13_ConfigurationKept ==
  /\ svm_scale_range_' = svm_scale_range_
  /\ svm_x_lower_' = svm_x_lower_
  /\ svm_x_upper_' = svm_x_upper_
  /\ use_svm_model_' = use_svm_model_
  /\ is_probability_model_' = is_probability_model_

\* C13: over any sequence of frames the detections emitted for a frame are derived
\* only from that frame's clusters and the configuration fixed at construction: the
\* feature list holds only this frame's features (it is emptied when a frame's
\* clustering starts), every detection is the centroid and box of a cluster of
\* this frame, the classifier input built for a cluster has all 34 values written
\* from that cluster before scaling, and no step of frame processing changes the
\* scale table, the target bounds or the model mode.
C13_FramesIndependent == [] C13_FrameOnly /\ [][C13_ConfigurationKept]_vars

\* A later frame in classifier mode: the previous frame left a feature in features_
\* and its scaled vector in svm_node_, this frame's cluster is another one, and the
\* detection published is this frame's.
C13_Witness ==
  /\ pc = "published"
  /\ use_svm_model_
  /\ Len(earlier) = 1
  /\ Len(features_) = 1
  /\ earlier[1] # features_[1]
  /\ Len(people) = 1
  /\ people[1].centroid # earlier[1].centroid
  /\ svm_log[1].svm_called

\* C14: while the constructor loads the range file every write to the scale table
\* lands inside the table: for every (index min max) line accepted, the row written,
\* index-1, lies in 0..33, whatever integer index the file contains (0, a negative
\* value or a value above 34 included).
C14_EveryWriteInsideTable ==
  \A k \in 1 .. Len(range_rows) : range_rows[k] \in 0 .. 33

\* C14 holds of the lines whose index lies in 1 .. 34.
C14_WritesOfListedIndicesInside ==
  \A k \in 1 .. Len(range_rows) :
    range_file.lines[k].idx \in 1 .. 34 => range_rows[k] \in 0 .. 33

====
